---------------------------- MODULE Spec2Model ----------------------------
(***************************************************************************)
(* Source-side migration orchestrator of vdsm (vdsm/virt/migration.py).    *)
(*                                                                         *)
(* One SourceThread ("driver") per migrating VM, with the DowntimeThread   *)
(* and MonitorThread it starts, the API caller's stop() and getStat(),     *)
(* and the process-wide BoundedSemaphore _ongoingMigrations.               *)
(*                                                                         *)
(* Every thread is a small program counter machine; one action is one      *)
(* stretch of code between two accesses to state another thread can see.   *)
(* External collaborators (libvirt domain, peer XML-RPC server, VM object) *)
(* are modelled by what the driver can observe of them: a call returns or  *)
(* raises, chosen nondeterministically.                                    *)
(***************************************************************************)
EXTENDS Integers, Sequences, FiniteSets, TLC

\* ------------------------------------------------------------------ bounds
NumDrivers == 2       \* drivers in the concurrent specification
MaxStops == 1         \* stop() calls an API client makes per migration
MaxData == 2          \* dataTotal and dataRemaining of a jobInfo sample: 0..MaxData
MaxTime == 2          \* wall clock readings: 0..MaxTime
MaxSamples == 2       \* jobInfo samples one monitor takes
MaxSteps == 3         \* migration_downtime_steps of the ramp study: 1..MaxSteps
MaxDowntime == 3      \* migration_downtime of the ramp study: 0..MaxDowntime
MaxCalcData == 101    \* dataTotal and dataRemaining of the progress study

\* ------------------------------------------------------- external constants
\* vdsm.define.errCode: the status a failure code name stands for.
errCode(k) ==
    CASE k = "exist"        -> [code |-> 4,  message |-> "Virtual machine already exists"]
      [] k = "noConPeer"    -> [code |-> 10, message |-> "Could not connect to peer VDS"]
      [] k = "migrateErr"   -> [code |-> 12, message |-> "Fatal error during migration"]
      [] k = "migCancelErr" -> [code |-> 82, message |-> "Migration not in progress"]

\* A refusal the peer's migrationCreate can answer with (any non-zero code).
PeerRefusal == [code |-> 9, message |-> "Error creating the requested VM"]

\* libvirt.VIR_ERR_OPERATION_ABORTED and the other kinds of exception run() can see.
VIR_ERR_OPERATION_ABORTED == "VIR_ERR_OPERATION_ABORTED"
VIR_ERR_OTHER == "VIR_ERR_INTERNAL_ERROR"
NoException == "none"
OtherException == "Exception"

\* Is the pending exception a libvirt.libvirtError?
IsLibvirtError(e) == e \in {VIR_ERR_OPERATION_ABORTED, VIR_ERR_OTHER}

\* dict[key] = value on a status dictionary (the key is added when missing).
SetKey(st, k, v) == [f \in (DOMAIN st) \cup {k} |-> IF f = k THEN v ELSE st[f]]

VARIABLES
    ongoingMigrations,  \* SourceThread._ongoingMigrations: [value, initial]
    config,             \* the 'vars' section read by the three threads
    src,                \* d -> the SourceThread object and its run() position
    status,             \* d -> SourceThread.status
    vm,                 \* d -> the Vm object: conf, lastStatus, guest CPU, stats
    dom,                \* d -> the libvirt domain: running job, calls made on it
    peer,               \* d -> destServer: calls made on it
    downtimeThread,     \* d -> the DowntimeThread
    monitorThread,      \* d -> the MonitorThread
    stopCall,           \* d -> the API client's stop() in flight
    clock               \* the last value time.time() returned

vars == <<ongoingMigrations, config, src, status, vm, dom, peer,
          downtimeThread, monitorThread, stopCall, clock>>

Drivers == DOMAIN src

\* ------------------------------------------------------------ construction
\* SourceThread.__init__ for one request.
NewSourceThread(mode, method) ==
    [pc |-> "init", mode |-> mode, method |-> method,
     preparingMigrationEvt |-> TRUE, migrationCanceledEvt |-> FALSE,
     monitorThread |-> FALSE,        \* self._monitorThread is not None
     exc |-> NoException,            \* the exception propagating in run()
     startTime |-> 0,
     probe |-> "none",               \* what getVmStats answered
     holds |-> FALSE,                \* between acquire() and release()
     escaped |-> FALSE,              \* an exception left run()
     acquires |-> 0, releases |-> 0] \* calls made on the semaphore

NewStatus == [code |-> 0, message |-> "Migration in progress", progress |-> 0]

NewVm == [migrationParams |-> FALSE,   \* '_migrationParams' in conf
          lastStatus |-> "Up", guestCpuRunning |-> TRUE, exitReason |-> "none",
          statsPaused |-> FALSE, volumePrepared |-> FALSE,
          saveOutcome |-> "none",      \* how the file-mode transfer phase went
          saveStateCalls |-> 0, contCalls |-> 0]

NewDom == [job |-> "none",          \* the job libvirt runs: none, migrate, save
           abortRequested |-> FALSE, \* abortJob() succeeded on the running job
           migrateCalls |-> 0, saveCalls |-> 0,
           downtimes |-> <<>>,       \* the migrateSetMaxDowntime values, in order
           dataMax |-> MaxData]      \* the most data a job of the domain reports

NewPeer == [createCalls |-> 0, destroyCalls |-> 0,
            createResult |-> "none"]  \* how migrationCreate ended

NoDowntimeThread == [pc |-> "none", i |-> 0, stop |-> FALSE, lateCalls |-> 0]

\* The locals of MonitorThread.run that hold the last jobInfo() sample.
NoJobInfo == [jobType |-> 0, dataTotal |-> 0, dataRemaining |-> 0]

NoMonitorThread ==
    [pc |-> "none", stop |-> FALSE, progress |-> 0, lowmark |-> -1,
     lastProgressTime |-> 0, samples |-> 0, aborts |-> 0, lateCalls |-> 0,
     info |-> NoJobInfo,
     exc |-> NoException]   \* the exception that ended the thread

NoStopCall == [pc |-> "idle", calls |-> 0, at |-> {}, aborts |-> 0,
               result |-> "none"]

Modes == {"remote", "file"}
Methods == {"online", "offline"}

\* The configurations a deployment can run with.
Configs ==
    [migration_monitor_interval : {0, 1},
     migration_max_time_per_gib_mem : {0, 1},
     migration_progress_timeout : {1},
     migration_downtime_steps : {0, 1},
     migration_downtime : {1},
     memSize : {1024}]

InitOf(ds, caps, cfgs, modes, methods) ==
    /\ \E n \in caps : ongoingMigrations = [value |-> n, initial |-> n]
    /\ config \in cfgs
    /\ src \in [ds -> {NewSourceThread(mo, me) : mo \in modes, me \in methods}]
    /\ status = [d \in ds |-> NewStatus]
    /\ vm = [d \in ds |-> NewVm]
    /\ dom = [d \in ds |-> NewDom]
    /\ peer = [d \in ds |-> NewPeer]
    /\ downtimeThread = [d \in ds |-> NoDowntimeThread]
    /\ monitorThread = [d \in ds |-> NoMonitorThread]
    /\ stopCall = [d \in ds |-> NoStopCall]
    /\ clock = 0

\* ------------------------------------------------------------- the driver
\* Move driver d to pc p with exception e pending.
Goto(d, p, e) == [src EXCEPT ![d].pc = p, ![d].exc = e]

\* time.time(): never runs backwards.
Times == clock..MaxTime

\* Thread.start() followed by run() line 227.
Start(d) ==
    /\ src[d].pc = "init"
    /\ src' = [src EXCEPT ![d].pc = "setupVdsConnection", ![d].startTime = clock]
    /\ UNCHANGED <<ongoingMigrations, config, status, vm, dom, peer,
                   downtimeThread, monitorThread, stopCall, clock>>

\* _setupVdsConnection: probe the peer; the probe's outcome only sets status.
SetupVdsConnection(d) ==
    /\ src[d].pc = "setupVdsConnection"
    /\ IF src[d].mode = "file"
       THEN /\ src' = [src EXCEPT ![d].pc = "setupRemoteMachineParams"]
            /\ UNCHANGED status
       ELSE \E answer \in {"exists", "absent", "raises"} :
            /\ src' = [src EXCEPT ![d].pc = "setupRemoteMachineParams",
                                  ![d].probe = answer]
            /\ status' = [status EXCEPT ![d] =
                            CASE answer = "exists" -> errCode("exist")
                              [] answer = "raises" -> errCode("noConPeer")
                              [] OTHER -> @]
    /\ UNCHANGED <<ongoingMigrations, config, vm, dom, peer,
                   downtimeThread, monitorThread, stopCall, clock>>

\* _setupRemoteMachineParams: reads the VM and the domain XML; XMLDesc may raise.
SetupRemoteMachineParams(d) ==
    /\ src[d].pc = "setupRemoteMachineParams"
    /\ \E ok \in BOOLEAN :
        src' = IF ok THEN Goto(d, "prepareGuest", NoException)
                     ELSE Goto(d, "recover", VIR_ERR_OTHER)
    /\ UNCHANGED <<ongoingMigrations, config, status, vm, dom, peer,
                   downtimeThread, monitorThread, stopCall, clock>>

\* _prepareGuest: file mode pauses the guest (which may fail), remote mode marks
\* the VM a migration source.
PrepareGuest(d) ==
    /\ src[d].pc = "prepareGuest"
    /\ IF src[d].mode = "file"
       THEN \E ok \in BOOLEAN :
            IF ok THEN /\ vm' = [vm EXCEPT ![d].guestCpuRunning = FALSE]
                       /\ src' = Goto(d, "acquire", NoException)
                  ELSE /\ UNCHANGED vm
                       /\ src' = Goto(d, "recover", OtherException)
       ELSE /\ vm' = [vm EXCEPT ![d].lastStatus = "Migration Source"]
            /\ src' = Goto(d, "acquire", NoException)
    /\ UNCHANGED <<ongoingMigrations, config, status, dom, peer,
                   downtimeThread, monitorThread, stopCall, clock>>

\* Acquire as a semaphore that never blocks would behave.
AcquireWithoutBlocking(d) ==
    /\ src[d].pc = "acquire"
    /\ ongoingMigrations' = [ongoingMigrations EXCEPT !.value = @ - 1]
    /\ src' = [src EXCEPT ![d].pc = "checkCanceled", ![d].holds = TRUE,
                          ![d].acquires = @ + 1]
    /\ UNCHANGED <<config, status, vm, dom, peer,
                   downtimeThread, monitorThread, stopCall, clock>>

\* BoundedSemaphore.acquire(): blocks while the value is 0.
Acquire(d) ==
    /\ src[d].pc = "acquire"
    /\ ongoingMigrations.value > 0
    /\ ongoingMigrations' = [ongoingMigrations EXCEPT !.value = @ - 1]
    /\ src' = [src EXCEPT ![d].pc = "checkCanceled", ![d].holds = TRUE,
                          ![d].acquires = @ + 1]
    /\ UNCHANGED <<config, status, vm, dom, peer,
                   downtimeThread, monitorThread, stopCall, clock>>

\* CheckCanceled without the test of the cancellation flag.
CheckCanceledIgnoringFlag(d) ==
    /\ src[d].pc = "checkCanceled"
    /\ src' = [src EXCEPT ![d].pc = "recordParams", ![d].exc = NoException]
    /\ UNCHANGED <<ongoingMigrations, config, status, vm, dom, peer,
                   downtimeThread, monitorThread, stopCall, clock>>

\* run() lines 233-234: the first cancellation checkpoint.
CheckCanceled(d) ==
    /\ src[d].pc = "checkCanceled"
    /\ src' = IF src[d].migrationCanceledEvt
              THEN Goto(d, "except", VIR_ERR_OPERATION_ABORTED)
              ELSE Goto(d, "recordParams", NoException)
    /\ UNCHANGED <<ongoingMigrations, config, status, vm, dom, peer,
                   downtimeThread, monitorThread, stopCall, clock>>

\* run() lines 236-242: record _migrationParams, then saveState() (may raise).
RecordParams(d) ==
    /\ src[d].pc = "recordParams"
    /\ vm' = [vm EXCEPT ![d].migrationParams = TRUE, ![d].saveStateCalls = @ + 1]
    /\ \E ok \in BOOLEAN :
        src' = IF ok THEN Goto(d, "startUnderlyingMigration", NoException)
                     ELSE Goto(d, "except", OtherException)
    /\ UNCHANGED <<ongoingMigrations, config, status, dom, peer,
                   downtimeThread, monitorThread, stopCall, clock>>

\* _startUnderlyingMigration, file mode, lines 261-266: pause the statistics
\* collector, prepare the volume path and enter dom.save(); a failure of the first
\* two resumes the collector (line 270) and propagates.
SaveCall(d) ==
    /\ src[d].pc = "startUnderlyingMigration"
    /\ src[d].mode = "file"
    /\ \E outcome \in {"ok", "statsPauseRaises", "prepareVolumePathRaises"} :
        IF outcome = "ok"
        THEN /\ vm' = [vm EXCEPT ![d].statsPaused = TRUE, ![d].volumePrepared = TRUE,
                                 ![d].saveOutcome = "inSave"]
             /\ dom' = [dom EXCEPT ![d].job = "save", ![d].abortRequested = FALSE,
                                   ![d].saveCalls = @ + 1]
             /\ src' = Goto(d, "inSave", NoException)
        ELSE /\ vm' = [vm EXCEPT ![d].statsPaused = FALSE, ![d].saveOutcome = outcome]
             /\ UNCHANGED dom
             /\ src' = Goto(d, "except", OtherException)
    /\ UNCHANGED <<ongoingMigrations, config, status, peer,
                   downtimeThread, monitorThread, stopCall, clock>>

\* How a running libvirt job can end: an aborted job ends with the abort error (or
\* another error), an unaborted one succeeds or fails.
JobOutcomes(dm) ==
    IF dm.abortRequested THEN {VIR_ERR_OPERATION_ABORTED, VIR_ERR_OTHER}
                         ELSE {NoException, VIR_ERR_OTHER}

\* dom.save() returns or raises, lines 266-271: the volume path is torn down either
\* way, the statistics collector is resumed on failure.
SaveReturn(d) ==
    /\ src[d].pc = "inSave"
    /\ \E e \in JobOutcomes(dom[d]) :
        /\ vm' = [vm EXCEPT ![d].volumePrepared = FALSE,
                            ![d].statsPaused = IF e = NoException THEN @ ELSE FALSE,
                            ![d].saveOutcome = IF e = NoException THEN "saved"
                                                                  ELSE "saveRaises"]
        /\ src' = IF e = NoException THEN Goto(d, "finishSuccessfully", e)
                                     ELSE Goto(d, "except", e)
    /\ dom' = [dom EXCEPT ![d].job = "none", ![d].abortRequested = FALSE]
    /\ UNCHANGED <<ongoingMigrations, config, status, peer,
                   downtimeThread, monitorThread, stopCall, clock>>

\* _startUnderlyingMigration, remote mode, lines 273-282: the peer creates the
\* destination VM, refuses, or the RPC raises.
MigrationCreate(d) ==
    /\ src[d].pc = "startUnderlyingMigration"
    /\ src[d].mode # "file"
    /\ \E outcome \in {"ok", "refused", "raises"} :
        /\ peer' = [peer EXCEPT ![d].createCalls = @ + 1, ![d].createResult = outcome]
        /\ status' = [status EXCEPT ![d] =
                        IF outcome = "refused" THEN PeerRefusal ELSE @]
        /\ src' = IF outcome = "ok" THEN Goto(d, "startWorkers", NoException)
                                    ELSE Goto(d, "except", OtherException)
    /\ UNCHANGED <<ongoingMigrations, config, vm, dom,
                   downtimeThread, monitorThread, stopCall, clock>>

\* Lines 297-301: DowntimeThread.__init__ starts the ramp; the monitor is created
\* and started when the interval is not 0. The monitor's prologue (lines 401-407)
\* runs here: it touches only the monitor's own fields and the clock.
StartWorkers(d) ==
    /\ src[d].pc = "startWorkers"
    /\ downtimeThread' = [downtimeThread EXCEPT ![d] =
            [pc |-> IF config.migration_downtime_steps = 0 THEN "done" ELSE "wait",
             i |-> 0, stop |-> FALSE, lateCalls |-> 0]]
    /\ IF config.migration_monitor_interval # 0
       THEN /\ monitorThread' = [monitorThread EXCEPT ![d] =
                    [NoMonitorThread EXCEPT !.pc = "loop", !.lastProgressTime = clock]]
            /\ src' = [src EXCEPT ![d].pc = "clearPreparing", ![d].monitorThread = TRUE]
       ELSE /\ src' = [src EXCEPT ![d].pc = "clearPreparing"]
            /\ UNCHANGED monitorThread
    /\ UNCHANGED <<ongoingMigrations, config, status, vm, dom, peer, stopCall, clock>>

\* Line 314: self._preparingMigrationEvt = False.
ClearPreparing(d) ==
    /\ src[d].pc = "clearPreparing"
    /\ src' = [src EXCEPT ![d].pc = "checkCanceled2", ![d].preparingMigrationEvt = FALSE]
    /\ UNCHANGED <<ongoingMigrations, config, status, vm, dom, peer,
                   downtimeThread, monitorThread, stopCall, clock>>

\* Lines 315, 325-326: the second cancellation checkpoint.
CheckCanceled2(d) ==
    /\ src[d].pc = "checkCanceled2"
    /\ src' = IF ~src[d].migrationCanceledEvt
              THEN Goto(d, "migrateToURI2", NoException)
              ELSE Goto(d, "teardown", VIR_ERR_OPERATION_ABORTED)
    /\ UNCHANGED <<ongoingMigrations, config, status, vm, dom, peer,
                   downtimeThread, monitorThread, stopCall, clock>>

\* Lines 316-324: the call enters libvirt and the migration job starts.
MigrateToURI2Call(d) ==
    /\ src[d].pc = "migrateToURI2"
    /\ dom' = [dom EXCEPT ![d].job = "migrate", ![d].abortRequested = FALSE,
                          ![d].migrateCalls = @ + 1]
    /\ src' = [src EXCEPT ![d].pc = "inMigrate"]
    /\ UNCHANGED <<ongoingMigrations, config, status, vm, peer,
                   downtimeThread, monitorThread, stopCall, clock>>

\* migrateToURI2 returns or raises.
MigrateToURI2Return(d) ==
    /\ src[d].pc = "inMigrate"
    /\ \E e \in JobOutcomes(dom[d]) : src' = Goto(d, "teardown", e)
    /\ dom' = [dom EXCEPT ![d].job = "none", ![d].abortRequested = FALSE]
    /\ UNCHANGED <<ongoingMigrations, config, status, vm, peer,
                   downtimeThread, monitorThread, stopCall, clock>>

\* Lines 328-331: t.cancel() and self._monitorThread.stop().
Teardown(d) ==
    /\ src[d].pc = "teardown"
    /\ downtimeThread' = [downtimeThread EXCEPT ![d].stop = TRUE]
    /\ monitorThread' = [monitorThread EXCEPT ![d].stop =
            IF config.migration_monitor_interval # 0 THEN TRUE ELSE @]
    /\ src' = [src EXCEPT ![d].pc =
            IF src[d].exc = NoException THEN "finishSuccessfully" ELSE "except"]
    /\ UNCHANGED <<ongoingMigrations, config, status, vm, dom, peer, stopCall, clock>>

\* _finishSuccessfully: progress 100, the VM goes Down; in file mode writing the
\* parameters file may raise after progress was set.
FinishSuccessfully(d) ==
    /\ src[d].pc = "finishSuccessfully"
    /\ LET done == SetKey(status[d], "progress", 100) IN
       IF src[d].mode # "file"
       THEN /\ vm' = [vm EXCEPT ![d].lastStatus = "Down",
                                ![d].exitReason = "MIGRATION_SUCCEEDED"]
            /\ status' = [status EXCEPT ![d] = SetKey(done, "message", "Migration done")]
            /\ src' = Goto(d, "delParams", NoException)
       ELSE \E ok \in BOOLEAN :
            IF ok
            THEN /\ vm' = [vm EXCEPT ![d].lastStatus = "Down",
                                     ![d].exitReason = "SAVE_STATE_SUCCEEDED"]
                 /\ status' = [status EXCEPT ![d] =
                                  SetKey(done, "message", "SaveState done")]
                 /\ src' = Goto(d, "delParams", NoException)
            ELSE /\ UNCHANGED vm
                 /\ status' = [status EXCEPT ![d] = done]
                 /\ src' = Goto(d, "delParams", OtherException)
    /\ UNCHANGED <<ongoingMigrations, config, dom, peer,
                   downtimeThread, monitorThread, stopCall, clock>>

\* The except clause without the mapping of the abort code.
ExceptWithoutMapping(d) ==
    /\ src[d].pc = "except"
    /\ src' = [src EXCEPT ![d].pc = "delParams"]
    /\ UNCHANGED <<ongoingMigrations, config, status, vm, dom, peer,
                   downtimeThread, monitorThread, stopCall, clock>>

\* Lines 245-250: a libvirtError carrying the abort code turns the status into
\* migCancelErr / 'Migration canceled'; every exception goes on to the finally.
ExceptLibvirtError(d) ==
    /\ src[d].pc = "except"
    /\ status' = [status EXCEPT ![d] =
            IF IsLibvirtError(src[d].exc) /\ src[d].exc = VIR_ERR_OPERATION_ABORTED
            THEN SetKey(SetKey(@, "code", errCode("migCancelErr").code),
                        "message", "Migration canceled")
            ELSE @]
    /\ src' = [src EXCEPT ![d].pc = "delParams"]
    /\ UNCHANGED <<ongoingMigrations, config, vm, dom, peer,
                   downtimeThread, monitorThread, stopCall, clock>>

\* DelParams with the deletion left out.
DelParamsSkipped(d) ==
    /\ src[d].pc = "delParams"
    /\ src' = [src EXCEPT ![d].pc = "release"]
    /\ UNCHANGED <<ongoingMigrations, config, status, vm, dom, peer,
                   downtimeThread, monitorThread, stopCall, clock>>

\* Lines 252-253.
DelParams(d) ==
    /\ src[d].pc = "delParams"
    /\ vm' = [vm EXCEPT ![d].migrationParams = FALSE]
    /\ src' = [src EXCEPT ![d].pc = "release"]
    /\ UNCHANGED <<ongoingMigrations, config, status, dom, peer,
                   downtimeThread, monitorThread, stopCall, clock>>

\* Release as the last statement of the try block instead of its finally: a run
\* that failed keeps the slot.
ReleaseOnSuccessOnly(d) ==
    /\ src[d].pc = "release"
    /\ IF src[d].exc = NoException
       THEN /\ ongoingMigrations' = [ongoingMigrations EXCEPT !.value = @ + 1]
            /\ src' = [src EXCEPT ![d].holds = FALSE, ![d].releases = @ + 1,
                                  ![d].pc = "done"]
       ELSE /\ UNCHANGED ongoingMigrations
            /\ src' = [src EXCEPT ![d].pc = "recover"]
    /\ UNCHANGED <<config, status, vm, dom, peer,
                   downtimeThread, monitorThread, stopCall, clock>>

\* Line 254: BoundedSemaphore.release() raises ValueError above the initial value.
Release(d) ==
    /\ src[d].pc = "release"
    /\ IF ongoingMigrations.value < ongoingMigrations.initial
       THEN /\ ongoingMigrations' = [ongoingMigrations EXCEPT !.value = @ + 1]
            /\ src' = [src EXCEPT ![d].holds = FALSE, ![d].releases = @ + 1,
                          ![d].pc = IF src[d].exc = NoException THEN "done"
                                                                ELSE "recover"]
       ELSE /\ UNCHANGED ongoingMigrations
            /\ src' = Goto(d, "recover", OtherException)
    /\ UNCHANGED <<config, status, vm, dom, peer,
                   downtimeThread, monitorThread, stopCall, clock>>

\* _recover replacing whatever status the failure left by migrateErr.
RecoverAlwaysMigrateErr(d) ==
    /\ src[d].pc = "recover"
    /\ status' = [status EXCEPT ![d] = errCode("migrateErr")]
    /\ peer' = [peer EXCEPT ![d].destroyCalls =
            IF src[d].mode # "file" THEN @ + 1 ELSE @]
    /\ IF src[d].mode = "file" \/ src[d].method # "online"
       THEN \E contOk \in BOOLEAN :
            IF contOk
            THEN /\ vm' = [vm EXCEPT ![d].guestCpuRunning = TRUE,
                                     ![d].contCalls = @ + 1,
                                     ![d].lastStatus = "Up"]
                 /\ src' = [src EXCEPT ![d].pc = "done"]
            ELSE /\ vm' = [vm EXCEPT ![d].contCalls = @ + 1]
                 /\ src' = [src EXCEPT ![d].pc = "done", ![d].escaped = TRUE]
       ELSE /\ vm' = [vm EXCEPT ![d].lastStatus = "Up"]
            /\ src' = [src EXCEPT ![d].pc = "done"]
    /\ UNCHANGED <<ongoingMigrations, config, dom,
                   downtimeThread, monitorThread, stopCall, clock>>

\* Lines 255-257 and _recover: the status becomes migrateErr unless a failure code
\* is there already, the peer's VM is destroyed (failures swallowed), a guest that
\* was to be paused is resumed, and the VM is marked Up. cont() runs unprotected:
\* when it raises, the exception leaves run() and line 169 is not reached.
Recover(d) ==
    /\ src[d].pc = "recover"
    /\ status' = [status EXCEPT ![d] =
            IF @.code = 0 THEN errCode("migrateErr") ELSE @]
    /\ peer' = [peer EXCEPT ![d].destroyCalls =
            IF src[d].mode # "file" THEN @ + 1 ELSE @]
    /\ IF src[d].mode = "file" \/ src[d].method # "online"
       THEN \E contOk \in BOOLEAN :
            IF contOk
            THEN /\ vm' = [vm EXCEPT ![d].guestCpuRunning = TRUE,
                                     ![d].contCalls = @ + 1,
                                     ![d].lastStatus = "Up"]
                 /\ src' = [src EXCEPT ![d].pc = "done"]
            ELSE /\ vm' = [vm EXCEPT ![d].contCalls = @ + 1]
                 /\ src' = [src EXCEPT ![d].pc = "done", ![d].escaped = TRUE]
       ELSE /\ vm' = [vm EXCEPT ![d].lastStatus = "Up"]
            /\ src' = [src EXCEPT ![d].pc = "done"]
    /\ UNCHANGED <<ongoingMigrations, config, dom,
                   downtimeThread, monitorThread, stopCall, clock>>

\* ------------------------------------------------------ the downtime ramp
\* DowntimeThread.run lines 363-367: the wait, then the test of the stop event.
DowntimeWait(d) ==
    /\ downtimeThread[d].pc = "wait"
    /\ downtimeThread' = [downtimeThread EXCEPT ![d].pc =
            IF downtimeThread[d].stop THEN "done" ELSE "set"]
    /\ UNCHANGED <<ongoingMigrations, config, src, status, vm, dom, peer,
                   monitorThread, stopCall, clock>>

\* DowntimeSet computing the step's value from i instead of i + 1.
DowntimeSetFromZero(d) ==
    /\ downtimeThread[d].pc = "set"
    /\ LET i == downtimeThread[d].i
           steps == config.migration_downtime_steps
           downtime == (config.migration_downtime * i) \div steps
       IN /\ dom' = [dom EXCEPT ![d].downtimes = Append(@, downtime)]
          /\ downtimeThread' = [downtimeThread EXCEPT
                ![d].i = i + 1,
                ![d].pc = IF i + 1 < steps THEN "wait" ELSE "done",
                ![d].lateCalls = IF downtimeThread[d].stop THEN @ + 1 ELSE @]
    /\ UNCHANGED <<ongoingMigrations, config, src, status, vm, peer,
                   monitorThread, stopCall, clock>>

\* Lines 369-371: one step of the ramp, then the loop goes on or ends.
DowntimeSet(d) ==
    /\ downtimeThread[d].pc = "set"
    /\ LET i == downtimeThread[d].i
           steps == config.migration_downtime_steps
           downtime == (config.migration_downtime * (i + 1)) \div steps
       IN /\ dom' = [dom EXCEPT ![d].downtimes = Append(@, downtime)]
          /\ downtimeThread' = [downtimeThread EXCEPT
                ![d].i = i + 1,
                ![d].pc = IF i + 1 < steps THEN "wait" ELSE "done",
                ![d].lateCalls = IF downtimeThread[d].stop THEN @ + 1 ELSE @]
    /\ UNCHANGED <<ongoingMigrations, config, src, status, vm, peer,
                   monitorThread, stopCall, clock>>

\* --------------------------------------------------- the progress monitor
\* calculateProgress without the clamp of line 397.
calculateProgressUnclamped(remaining, total) ==
    IF remaining = 0 THEN 100
    ELSE IF total # 0 THEN 100 - ((100 * remaining) \div total) ELSE 0

\* MonitorThread.run.calculateProgress (Python 2 integer division).
calculateProgress(remaining, total) ==
    IF remaining = 0 THEN 100
    ELSE LET progress == IF total # 0 THEN 100 - ((100 * remaining) \div total) ELSE 0
         IN IF progress < 100 THEN progress ELSE 99

\* Line 404.
migrationMaxTime ==
    (config.migration_max_time_per_gib_mem * config.memSize + 1023) \div 1024

\* lowmark = None.
NoLowmark == -1

\* What dom.jobInfo() can return: zeros when no job runs, anything within the
\* bounds while one does.
JobInfos(dm) ==
    IF dm.job = "none"
    THEN {NoJobInfo}
    ELSE [jobType : {0, 1}, dataTotal : 0..dm.dataMax, dataRemaining : 0..dm.dataMax]

\* dom.abortJob(): cancels the running job, or raises libvirtError (it may raise
\* when no job is active).
AbortJob(dm, ok) ==
    [dm EXCEPT !.abortRequested = IF ok /\ dm.job # "none" THEN TRUE ELSE @]

\* Line 409: while not self._stop.isSet().
MonitorLoop(d) ==
    /\ monitorThread[d].pc = "loop"
    /\ monitorThread[d].stop \/ monitorThread[d].samples < MaxSamples
    /\ monitorThread' = [monitorThread EXCEPT ![d] =
            IF monitorThread[d].stop THEN [@ EXCEPT !.pc = "done", !.info = NoJobInfo]
                                     ELSE [@ EXCEPT !.pc = "wait"]]
    /\ UNCHANGED <<ongoingMigrations, config, src, status, vm, dom, peer,
                   downtimeThread, stopCall, clock>>

\* MonitorSample aborting on an overrun only, never on a stall.
MonitorSampleIgnoringStall(d) ==
    /\ monitorThread[d].pc = "wait"
    /\ \E info \in JobInfos(dom[d]), now \in Times, abortOk \in BOOLEAN :
        LET m == monitorThread[d]
            overrun == 0 < migrationMaxTime /\ migrationMaxTime < now - src[d].startTime
            improved == ~overrun /\ (m.lowmark = NoLowmark \/ m.lowmark > info.dataRemaining)
            stuck == ~overrun /\ ~improved
                        /\ (now - m.lastProgressTime) > config.migration_progress_timeout
            abort == overrun
            sampled == [m EXCEPT
                !.info = info,
                !.samples = @ + 1,
                !.lateCalls = IF m.stop THEN @ + 1 ELSE @,
                !.lowmark = IF improved THEN info.dataRemaining ELSE @,
                !.lastProgressTime = IF improved THEN now ELSE @]
        IN /\ clock' = now
           /\ IF abort
              THEN /\ dom' = [dom EXCEPT ![d] = AbortJob(@, abortOk)]
                   /\ monitorThread' = [monitorThread EXCEPT ![d] =
                        [sampled EXCEPT !.aborts = @ + 1, !.pc = "done",
                                        !.stop = IF abortOk THEN TRUE ELSE @,
                                        !.exc = IF abortOk THEN @ ELSE VIR_ERR_OTHER]]
              ELSE /\ abortOk
                   /\ UNCHANGED dom
                   /\ monitorThread' = [monitorThread EXCEPT ![d] =
                        [sampled EXCEPT !.pc = "loop",
                            !.progress = IF info.jobType = 0 THEN @
                                         ELSE calculateProgress(info.dataRemaining,
                                                                info.dataTotal)]]
    /\ UNCHANGED <<ongoingMigrations, config, src, status, vm, peer,
                   downtimeThread, stopCall>>

\* Lines 410-456: one sample. The abort policy comes first; an abort calls
\* abortJob(), sets the stop event and leaves the loop (an abortJob() that raises
\* ends the thread). Otherwise progress is set unless the sample is stale.
MonitorSample(d) ==
    /\ monitorThread[d].pc = "wait"
    /\ \E info \in JobInfos(dom[d]), now \in Times, abortOk \in BOOLEAN :
        LET m == monitorThread[d]
            overrun == 0 < migrationMaxTime /\ migrationMaxTime < now - src[d].startTime
            improved == ~overrun /\ (m.lowmark = NoLowmark \/ m.lowmark > info.dataRemaining)
            stuck == ~overrun /\ ~improved
                        /\ (now - m.lastProgressTime) > config.migration_progress_timeout
            abort == overrun \/ stuck
            sampled == [m EXCEPT
                !.info = info,
                !.samples = @ + 1,
                !.lateCalls = IF m.stop THEN @ + 1 ELSE @,
                !.lowmark = IF improved THEN info.dataRemaining ELSE @,
                !.lastProgressTime = IF improved THEN now ELSE @]
        IN /\ clock' = now
           /\ IF abort
              THEN /\ dom' = [dom EXCEPT ![d] = AbortJob(@, abortOk)]
                   /\ monitorThread' = [monitorThread EXCEPT ![d] =
                        [sampled EXCEPT !.aborts = @ + 1, !.pc = "done",
                                        !.stop = IF abortOk THEN TRUE ELSE @,
                                        !.exc = IF abortOk THEN @ ELSE VIR_ERR_OTHER]]
              ELSE /\ abortOk
                   /\ UNCHANGED dom
                   /\ monitorThread' = [monitorThread EXCEPT ![d] =
                        [sampled EXCEPT !.pc = "loop",
                            !.progress = IF info.jobType = 0 THEN @
                                         ELSE calculateProgress(info.dataRemaining,
                                                                info.dataTotal)]]
    /\ UNCHANGED <<ongoingMigrations, config, src, status, vm, peer,
                   downtimeThread, stopCall>>

\* ------------------------------------------------------------ API callers
\* Where in its lifecycle a driver at pc p is, as a caller of stop() finds it.
Phase(p) ==
    CASE p \in {"setupVdsConnection", "setupRemoteMachineParams", "prepareGuest",
                "acquire"} -> "beforeAcquire"
      [] p \in {"checkCanceled", "recordParams", "startUnderlyingMigration",
                "startWorkers", "clearPreparing", "checkCanceled2",
                "migrateToURI2"} -> "beforeCall"
      [] p \in {"inMigrate", "inSave"} -> "inCall"
      [] OTHER -> "afterCall"

\* stop() line 337: the cancellation flag is set first.
StopSetCanceled(d) ==
    /\ src[d].pc # "init"
    /\ stopCall[d].pc = "idle"
    /\ stopCall[d].calls < MaxStops
    /\ src' = [src EXCEPT ![d].migrationCanceledEvt = TRUE]
    /\ stopCall' = [stopCall EXCEPT ![d].pc = "abortJob", ![d].calls = @ + 1,
                                    ![d].at = @ \cup {Phase(src[d].pc)}]
    /\ UNCHANGED <<ongoingMigrations, config, status, vm, dom, peer,
                   downtimeThread, monitorThread, clock>>

\* stop() line 338: abortJob() returns or raises libvirtError.
StopAbortJob(d) ==
    /\ stopCall[d].pc = "abortJob"
    /\ \E ok \in BOOLEAN :
        /\ dom' = [dom EXCEPT ![d] = AbortJob(@, ok)]
        /\ stopCall' = [stopCall EXCEPT ![d].aborts = @ + 1,
                            ![d].pc = IF ok THEN "idle" ELSE "except",
                            ![d].result = IF ok THEN "returned" ELSE @]
    /\ UNCHANGED <<ongoingMigrations, config, src, status, vm, peer,
                   downtimeThread, monitorThread, clock>>

\* stop() swallowing every abortJob() failure.
StopExceptAlwaysSwallows(d) ==
    /\ stopCall[d].pc = "except"
    /\ stopCall' = [stopCall EXCEPT ![d].pc = "idle", ![d].result = "swallowed"]
    /\ UNCHANGED <<ongoingMigrations, config, src, status, vm, dom, peer,
                   downtimeThread, monitorThread, clock>>

\* stop() lines 339-341: the failure is re-raised once the driver is past the
\* preparing checkpoint, swallowed before.
StopExcept(d) ==
    /\ stopCall[d].pc = "except"
    /\ stopCall' = [stopCall EXCEPT ![d].pc = "idle",
            ![d].result = IF ~src[d].preparingMigrationEvt THEN "raised"
                                                           ELSE "swallowed"]
    /\ UNCHANGED <<ongoingMigrations, config, src, status, vm, dom, peer,
                   downtimeThread, monitorThread, clock>>

\* What getStat() returns (and leaves in self.status): with a monitor, its progress
\* is copied into the status first.
getStat(d) ==
    IF src[d].monitorThread
    THEN SetKey(status[d], "progress", monitorThread[d].progress)
    ELSE status[d]

\* A client calls getStat().
GetStat(d) ==
    /\ status' = [status EXCEPT ![d] = getStat(d)]
    /\ UNCHANGED <<ongoingMigrations, config, src, vm, dom, peer,
                   downtimeThread, monitorThread, stopCall, clock>>

\* ---------------------------------------------------------- specifications
\* One step of driver d's run().
DriverNext(d) ==
    \/ Start(d) \/ SetupVdsConnection(d) \/ SetupRemoteMachineParams(d)
    \/ PrepareGuest(d) \/ Acquire(d) \/ CheckCanceled(d) \/ RecordParams(d)
    \/ SaveCall(d) \/ SaveReturn(d)
    \/ MigrationCreate(d) \/ StartWorkers(d) \/ ClearPreparing(d)
    \/ CheckCanceled2(d) \/ MigrateToURI2Call(d) \/ MigrateToURI2Return(d)
    \/ Teardown(d) \/ FinishSuccessfully(d) \/ ExceptLibvirtError(d)
    \/ DelParams(d) \/ Release(d) \/ Recover(d)

RampNext(d) == DowntimeWait(d) \/ DowntimeSet(d)

MonitorNext(d) == MonitorLoop(d) \/ MonitorSample(d)

StopNext(d) == StopSetCanceled(d) \/ StopAbortJob(d) \/ StopExcept(d)

\* The configurations with the monitor disabled (migration_monitor_interval = 0)
\* and with it enabled.
NoMonitorConfigs ==
    {c \in Configs : c.migration_monitor_interval = 0
                     /\ c.migration_max_time_per_gib_mem = 0
                     /\ c.migration_downtime_steps # 0}
MonitorConfigs ==
    {c \in Configs : c.migration_monitor_interval # 0
                     /\ c.migration_downtime_steps # 0}
\* Neither worker acts: no monitor, and a ramp of no steps.
NoWorkerConfigs ==
    {c \in Configs : c.migration_monitor_interval = 0
                     /\ c.migration_max_time_per_gib_mem = 0
                     /\ c.migration_downtime_steps = 0}

\* Spec: one migration of every mode and method with the monitor disabled; the
\* driver, its downtime ramp and a client calling stop().
Init == InitOf({1}, {1}, NoMonitorConfigs, Modes, Methods)

Next == DriverNext(1) \/ RampNext(1) \/ StopNext(1)

Spec == Init /\ [][Next]_vars

\* ConcSpec: NumDrivers migrations competing for fewer slots (the value given to
\* setMaxOutgoingMigrations); nobody calls stop() and the workers have nothing to
\* do. Drivers are interchangeable, so one assignment per multiset of modes.
ConcInit ==
    /\ InitOf(1..NumDrivers, 1..(NumDrivers - 1), NoWorkerConfigs, Modes, {"online"})
    /\ \A d \in 1..(NumDrivers - 1) : src[d].mode = "file" => src[d + 1].mode = "file"

ConcNext == \E d \in 1..NumDrivers : DriverNext(d)

ConcSpec == ConcInit /\ [][ConcNext]_vars

\* MonitorSpec: one migration with the monitor enabled, and a client polling
\* getStat().
MonitorInit == InitOf({1}, {1}, MonitorConfigs, Modes, {"online"})

MonitorSpecNext == DriverNext(1) \/ RampNext(1) \/ MonitorNext(1) \/ GetStat(1)

MonitorSpec == MonitorInit /\ [][MonitorSpecNext]_vars

\* CancelSpec: one migration with the monitor enabled and a ramp of no steps, and
\* a client calling stop().
CancelConfigs ==
    {c \in Configs : c.migration_monitor_interval # 0
                     /\ c.migration_downtime_steps = 0}

CancelInit == InitOf({1}, {1}, CancelConfigs, Modes, {"online"})

CancelSpecNext == DriverNext(1) \/ MonitorNext(1) \/ StopNext(1)

CancelSpec == CancelInit /\ [][CancelSpecNext]_vars

\* The driver thread is scheduled again and again, and the calls it waits in return.
FairCancelSpec == CancelSpec /\ WF_vars(DriverNext(1))

FairSpec == Spec /\ WF_vars(DriverNext(1))

\* DowntimeSpec: one migration without monitor, for every downtime target and step
\* count of the ramp within the bounds.
RampConfigs ==
    [migration_monitor_interval : {0},
     migration_max_time_per_gib_mem : {0},
     migration_progress_timeout : {1},
     migration_downtime_steps : 1..MaxSteps,
     migration_downtime : 0..MaxDowntime,
     memSize : {1024}]

DowntimeInit == InitOf({1}, {1}, RampConfigs, Modes, {"online"})

DowntimeSpecNext == DriverNext(1) \/ RampNext(1)

DowntimeSpec == DowntimeInit /\ [][DowntimeSpecNext]_vars

\* CalcSpec: the monitor of a remote migration whose driver waits in
\* migrateToURI2, about to take its last sample of a job on a large domain; the
\* samples before it found jobType 0 and nothing transferred yet.
CalcInit ==
    LET stale == [jobType |-> 0, dataTotal |-> MaxCalcData,
                  dataRemaining |-> MaxCalcData]
    IN
    /\ ongoingMigrations = [value |-> 0, initial |-> 1]
    /\ config \in {c \in CancelConfigs : c.migration_max_time_per_gib_mem = 0}
    /\ src = [d \in {1} |->
                [NewSourceThread("remote", "online") EXCEPT
                    !.pc = "inMigrate", !.probe = "absent",
                    !.preparingMigrationEvt = FALSE, !.monitorThread = TRUE,
                    !.holds = TRUE, !.acquires = 1]]
    /\ status = [d \in {1} |-> NewStatus]
    /\ vm = [d \in {1} |->
                [NewVm EXCEPT !.migrationParams = TRUE, !.saveStateCalls = 1,
                              !.lastStatus = "Migration Source"]]
    /\ dom = [d \in {1} |->
                [NewDom EXCEPT !.job = "migrate", !.migrateCalls = 1,
                               !.dataMax = MaxCalcData]]
    /\ peer = [d \in {1} |->
                [NewPeer EXCEPT !.createCalls = 1, !.createResult = "ok"]]
    /\ downtimeThread = [d \in {1} |-> [NoDowntimeThread EXCEPT !.pc = "done"]]
    /\ monitorThread = [d \in {1} |->
                [NoMonitorThread EXCEPT
                    !.pc = "loop", !.samples = MaxSamples - 1,
                    !.lowmark = stale.dataRemaining, !.info = stale]]
    /\ stopCall = [d \in {1} |-> NoStopCall]
    /\ clock = 0

CalcSpecNext == MonitorNext(1)

CalcSpec == CalcInit /\ [][CalcSpecNext]_vars

\* ------------------------------------------------------------------ claims
\* The drivers between acquire() and release().
Holders == {d \in Drivers : src[d].holds}

\* The run of driver d has ended.
Ended(d) == src[d].pc = "done"

MigCancelErr == errCode("migCancelErr").code

\* The status a cancelled run ends with.
Canceled(d) ==
    /\ status[d].code = MigCancelErr
    /\ status[d].message = "Migration canceled"

\* C1: with several drivers running and the semaphore initialised to n, at most n
\* drivers are between acquire and release in every reachable state, and a driver
\* inside dom.save() or dom.migrateToURI2() holds a slot.
C1_SlotCapsTransfers ==
    /\ Cardinality(Holders) <= ongoingMigrations.initial
    /\ ongoingMigrations.value = ongoingMigrations.initial - Cardinality(Holders)
    /\ \A d \in Drivers : dom[d].job # "none" => src[d].holds

\* Every slot is taken by a driver in a transfer call while another driver waits.
C1_Witness ==
    /\ Cardinality(Holders) = ongoingMigrations.initial
    /\ \A d \in Holders : dom[d].job # "none"
    /\ \E d \in Drivers : src[d].pc = "acquire"

\* C2: on every exit path of run() the slot is released exactly once if it was
\* acquired and not at all if it was not, so that after the run the semaphore is
\* back at its value from before the run.
C2_SlotReleasedOnEveryPath ==
    \A d \in Drivers :
        /\ src[d].releases <= src[d].acquires
        /\ src[d].acquires <= 1
        /\ Ended(d) =>
            /\ src[d].releases = src[d].acquires
            /\ ~src[d].holds
            /\ ongoingMigrations.value = ongoingMigrations.initial

\* A run that failed after it acquired the slot has ended.
C2_Witness ==
    \E d \in Drivers :
        Ended(d) /\ src[d].acquires = 1 /\ src[d].exc = VIR_ERR_OTHER

\* C3: _migrationParams is absent from vm.conf before start and after the run; while
\* present the driver holds the slot; it is there during every transfer call and
\* gone before the slot is released.
C3_MigrationParamsScoped ==
    \A d \in Drivers :
        /\ src[d].pc \in {"init", "done"} => ~vm[d].migrationParams
        /\ vm[d].migrationParams => src[d].holds
        /\ dom[d].job # "none" => vm[d].migrationParams
        /\ src[d].pc = "release" => ~vm[d].migrationParams

\* _migrationParams is on the VM config while migrateToURI2 runs.
C3_Witness ==
    \E d \in Drivers : vm[d].migrationParams /\ dom[d].job = "migrate"

\* C4: when the peer probe finds the VM on the peer the status becomes exist, when it
\* raises the status becomes noConPeer, and in both cases the driver stops before the
\* slot: no acquire, no _migrationParams, no migrationCreate, no migrateToURI2.
C4_ProbeFailureAborts ==
    \A d \in Drivers :
        /\ src[d].pc = "setupRemoteMachineParams" /\ src[d].probe = "exists"
            => status[d] = errCode("exist")
        /\ src[d].pc = "setupRemoteMachineParams" /\ src[d].probe = "raises"
            => status[d] = errCode("noConPeer")
        /\ src[d].probe \in {"exists", "raises"} =>
            /\ src[d].acquires = 0
            /\ ~vm[d].migrationParams
            /\ peer[d].createCalls = 0
            /\ dom[d].migrateCalls = 0

\* C5: when stop() set the cancellation flag before the driver acquired the slot,
\* then once the slot is acquired the driver makes no saveState(), save(),
\* migrateToURI2() or migrationCreate() call, and the run ends with migCancelErr and
\* 'Migration canceled'.
C5_CancelBeforeAcquire ==
    \A d \in Drivers :
        "beforeAcquire" \in stopCall[d].at /\ src[d].acquires > 0 =>
            /\ vm[d].saveStateCalls = 0
            /\ dom[d].saveCalls = 0
            /\ dom[d].migrateCalls = 0
            /\ peer[d].createCalls = 0
            /\ src[d].pc \in {"checkCanceled", "except", "delParams", "release",
                              "recover", "done"}
            /\ Ended(d) => Canceled(d)

\* A run cancelled before the slot was acquired has acquired it and ended.
C5_Witness ==
    \E d \in Drivers :
        "beforeAcquire" \in stopCall[d].at /\ src[d].acquires = 1 /\ Ended(d)

\* C6: in remote mode, when stop() set the cancellation flag after the driver
\* acquired the slot and before it called migrateToURI2, migrateToURI2 is never
\* called and the run ends with migCancelErr and 'Migration canceled'. Stated for
\* the runs that get as far as the checkpoint before the call (line 314), where
\* nothing but the cancellation can end the run.
C6_CancelBeforeCall ==
    \A d \in Drivers :
        /\ src[d].mode # "file"
        /\ "beforeCall" \in stopCall[d].at
        /\ ~src[d].preparingMigrationEvt
        => /\ dom[d].migrateCalls = 0
           /\ Ended(d) => Canceled(d)

\* stop() was called once, while migrateToURI2 was in progress.
StoppedInMigrate(d) ==
    /\ src[d].mode # "file"
    /\ stopCall[d].calls = 1
    /\ stopCall[d].at = {"inCall"}

\* The abortJob() calls made during the run of d, by stop() and by the monitor.
AbortJobCalls(d) == stopCall[d].aborts + monitorThread[d].aborts

\* C7 as claimed: when stop() is called once while migrateToURI2 is in progress,
\* abortJob is invoked exactly once over the whole run, and a run whose
\* migrateToURI2 returned the abort error ends with migCancelErr.
C7_AbortJobExactlyOnce ==
    \A d \in Drivers :
        StoppedInMigrate(d) =>
            /\ AbortJobCalls(d) <= 1
            /\ stopCall[d].pc = "idle" => AbortJobCalls(d) = 1
            /\ Ended(d) /\ src[d].exc = VIR_ERR_OPERATION_ABORTED
                => status[d].code = MigCancelErr

\* C7 as amended: when stop() is called once while migrateToURI2 is in progress,
\* stop() invokes abortJob exactly once and the monitor at most once more; the run
\* eventually ends, and when migrateToURI2 returned the abort error it ends with
\* migCancelErr.
C7_StopInvokesAbortJobOnce ==
    /\ [](\A d \in Drivers :
            StoppedInMigrate(d) =>
                /\ stopCall[d].aborts <= 1
                /\ stopCall[d].pc = "idle" => stopCall[d].aborts = 1
                /\ monitorThread[d].aborts <= 1
                /\ Ended(d) /\ src[d].exc = VIR_ERR_OPERATION_ABORTED
                    => status[d].code = MigCancelErr)
    /\ (StoppedInMigrate(1) ~> Ended(1))

\* A run stopped during migrateToURI2 ended cancelled after stop()'s one abortJob.
C7_Witness ==
    \E d \in Drivers :
        /\ StoppedInMigrate(d) /\ Ended(d)
        /\ src[d].exc = VIR_ERR_OPERATION_ABORTED
        /\ stopCall[d].aborts = 1
        /\ status[d].code = MigCancelErr

\* C8: stop() always sets the cancellation flag and attempts abortJob; a failed
\* abortJob is swallowed while preparingMigration is true and propagated once it is
\* false. preparingMigration starts true, goes false only on the step before the
\* migrateToURI2 checkpoint, never comes back, and migrateToURI2 runs only while it
\* is false.
C8_PreparingGatesStop ==
    /\ [](\A d \in Drivers :
            /\ src[d].pc = "init" => src[d].preparingMigrationEvt
            /\ stopCall[d].calls > 0 => src[d].migrationCanceledEvt
            /\ stopCall[d].pc = "abortJob" => stopCall[d].aborts = stopCall[d].calls - 1
            /\ stopCall[d].pc # "abortJob" => stopCall[d].aborts = stopCall[d].calls
            /\ dom[d].migrateCalls > 0 => ~src[d].preparingMigrationEvt
            /\ src[d].pc \in {"migrateToURI2", "inMigrate"}
                => ~src[d].preparingMigrationEvt)
    /\ [][\A d \in Drivers :
            /\ src'[d].preparingMigrationEvt => src[d].preparingMigrationEvt
            /\ src[d].preparingMigrationEvt /\ ~src'[d].preparingMigrationEvt
                => src'[d].pc = "checkCanceled2"
            /\ stopCall[d].pc = "except" /\ stopCall'[d].pc = "idle"
                => stopCall'[d].result =
                     IF src[d].preparingMigrationEvt THEN "swallowed" ELSE "raised"
            /\ stopCall[d].pc = "abortJob" /\ stopCall'[d].pc = "idle"
                => stopCall'[d].result = "returned"]_vars

\* stop() propagated an abortJob failure: the driver was past the checkpoint.
C8_Witness ==
    \E d \in Drivers :
        stopCall[d].result = "raised" /\ ~src[d].preparingMigrationEvt

\* C9: while the status code is 0, neither the monitor's progress nor the progress
\* in the status getStat() returns ever goes down.
C9_ProgressMonotonic ==
    [][\A d \in Drivers :
        status[d].code = 0 /\ status'[d].code = 0 =>
            /\ monitorThread'[d].progress >= monitorThread[d].progress
            /\ status'[d].progress >= status[d].progress]_vars

\* The transfer succeeded and _finishSuccessfully ran to its end.
Succeeded(d) ==
    /\ src[d].pc \in {"delParams", "release", "done"}
    /\ src[d].exc = NoException

\* C10: progress 100, in the monitor or in the status, implies terminal success;
\* until _finishSuccessfully the progress is at most 99.
C10_HundredMeansSuccess ==
    \A d \in Drivers :
        /\ monitorThread[d].progress = 100 => Succeeded(d)
        /\ "progress" \in DOMAIN status[d] /\ status[d].progress = 100 => Succeeded(d)
        /\ ~Succeeded(d) => monitorThread[d].progress <= 99

\* C11: after a remote run in which migrateToURI2 returned success (and the peer
\* probe had found nothing wrong), getStat() returns progress 100, code 0 and
\* 'Migration done', and the VM is Down with reason MIGRATION_SUCCEEDED, with or
\* without a monitor.
C11_SuccessReportsHundred ==
    \A d \in Drivers :
        src[d].mode # "file" /\ src[d].probe = "absent" /\ Succeeded(d) =>
            /\ getStat(d).progress = 100
            /\ getStat(d).code = 0
            /\ getStat(d).message = "Migration done"
            /\ vm[d].lastStatus = "Down"
            /\ vm[d].exitReason = "MIGRATION_SUCCEEDED"

MonitorAborted(d) ==
    /\ src[d].mode # "file"
    /\ monitorThread[d].aborts > 0
    /\ stopCall[d].calls = 0
    /\ src[d].exc = VIR_ERR_OPERATION_ABORTED

RampValues(n) ==
    [k \in 1..n |-> (config.migration_downtime * k) \div config.migration_downtime_steps]

\* The ramp of d ran to its end without being cancelled.
RampCompleted(d) == downtimeThread[d].pc = "done" /\ ~downtimeThread[d].stop

\* C14 as claimed: an uncancelled ramp of N >= 1 steps issues exactly N
\* setMaxDowntime calls with the values targetDowntime*k/N for k = 1..N in order,
\* the values are strictly increasing, and the last one is targetDowntime.
C14_RampStrictlyIncreasing ==
    \A d \in Drivers :
        LET issued == dom[d].downtimes IN
        /\ issued = RampValues(downtimeThread[d].i)
        /\ \A j \in 1..(Len(issued) - 1) : issued[j] < issued[j + 1]
        /\ RampCompleted(d) =>
            /\ Len(issued) = config.migration_downtime_steps
            /\ issued[Len(issued)] = config.migration_downtime

\* C14 as amended: an uncancelled ramp of N >= 1 steps issues exactly N
\* setMaxDowntime calls with the values targetDowntime*k/N for k = 1..N in order,
\* the values never decrease, they are strictly increasing when targetDowntime >= N,
\* and the last one is targetDowntime.
C14_RampNonDecreasing ==
    \A d \in Drivers :
        LET issued == dom[d].downtimes IN
        /\ issued = RampValues(downtimeThread[d].i)
        /\ \A j \in 1..(Len(issued) - 1) :
            /\ issued[j] <= issued[j + 1]
            /\ config.migration_downtime >= config.migration_downtime_steps
                => issued[j] < issued[j + 1]
        /\ RampCompleted(d) =>
            /\ Len(issued) = config.migration_downtime_steps
            /\ issued[Len(issued)] = config.migration_downtime

\* An uncancelled ramp of several steps completed with a repeated value.
C14_Witness ==
    \E d \in Drivers :
        /\ RampCompleted(d)
        /\ Len(dom[d].downtimes) = config.migration_downtime_steps
        /\ \E j \in 1..(Len(dom[d].downtimes) - 1) :
             dom[d].downtimes[j] = dom[d].downtimes[j + 1]

\* calc(remaining, total) as the progress calculation is specified.
SpecifiedProgress(r, t) ==
    IF r = 0 THEN 100
    ELSE IF t = 0 THEN 0
    ELSE IF 100 - ((100 * r) \div t) >= 100 THEN 99
    ELSE 100 - ((100 * r) \div t)

\* The monitor of d has just set its progress from the sample it holds.
ProgressSet(d) ==
    /\ monitorThread[d].pc = "loop"
    /\ monitorThread[d].samples = MaxSamples
    /\ monitorThread[d].info.jobType # 0

\* C15: the progress the monitor computes from a sample (remaining, total) is 100
\* when remaining = 0, 0 when total = 0 < remaining, and for 0 < remaining < total
\* 100 - 100*remaining/total (integer division), or 99 when that is 100 or more.
C15_CalculateProgress ==
    \A d \in Drivers :
        ProgressSet(d) =>
            LET r == monitorThread[d].info.dataRemaining
                t == monitorThread[d].info.dataTotal
            IN r = 0 \/ t = 0 \/ r < t
                => monitorThread[d].progress = SpecifiedProgress(r, t)

\* The clamp applied: a sample of 0 < remaining < total whose quotient is 0.
C15_Witness ==
    \E d \in Drivers :
        /\ ProgressSet(d)
        /\ 0 < monitorThread[d].info.dataRemaining
        /\ monitorThread[d].info.dataRemaining < monitorThread[d].info.dataTotal
        /\ (100 * monitorThread[d].info.dataRemaining)
                \div monitorThread[d].info.dataTotal = 0
        /\ monitorThread[d].progress = 99

\* C16: the progress getStat() returns is within 0..100 in every reachable state,
\* whatever non-negative dataTotal and dataRemaining the samples carried.
C16_ProgressInRange ==
    \A d \in Drivers :
        "progress" \in DOMAIN getStat(d) => getStat(d).progress \in 0..100

\* The monitor of d takes a sample in this step.
Samples(d) == monitorThread[d].pc = "wait" /\ monitorThread'[d].pc # "wait"

\* The sample taken in this step, at time clock', is past the maximum migration
\* time, or finds the lowmark not improved for more than the progress timeout.
AbortDue(d) ==
    LET m == monitorThread[d]
        remaining == monitorThread'[d].info.dataRemaining
    IN \/ migrationMaxTime > 0 /\ clock' - src[d].startTime > migrationMaxTime
       \/ /\ m.lowmark # NoLowmark /\ remaining >= m.lowmark
          /\ clock' - m.lastProgressTime > config.migration_progress_timeout

\* What every sample does apart from the stop event: when an abort is due, abortJob
\* is called once and the thread ends; when none is due, abortJob is not called, the
\* lowmark is the smallest dataRemaining seen and the monitor goes on. A monitor
\* that ended takes no sample and calls nothing.
SamplePolicy(d) ==
    LET m == monitorThread[d]
        n == monitorThread'[d]
    IN /\ Samples(d) /\ AbortDue(d) =>
            /\ n.aborts = m.aborts + 1
            /\ n.pc = "done"
       /\ Samples(d) /\ ~AbortDue(d) =>
            /\ n.aborts = m.aborts /\ dom'[d] = dom[d]
            /\ n.pc = "loop" /\ n.stop = m.stop
            /\ n.lowmark = IF m.lowmark = NoLowmark \/ n.info.dataRemaining < m.lowmark
                            THEN n.info.dataRemaining ELSE m.lowmark
       /\ m.pc = "done" => n.pc = "done" /\ n.samples = m.samples /\ n.aborts = m.aborts

\* C17 as claimed: at each sample, when an abort is due the monitor calls abortJob
\* exactly once, sets its stop event and takes no further sample; when none is due
\* it does not call abortJob, and a sample above the lowmark within the timeout
\* lets the monitor continue.
C17_AbortPolicy ==
    [][\A d \in Drivers :
        /\ SamplePolicy(d)
        /\ Samples(d) /\ AbortDue(d) => monitorThread'[d].stop]_vars

\* C17 as amended: as claimed, except that the stop event is set when abortJob
\* returned; when abortJob raised, the thread ends on that exception with the
\* event as it was.
C17_AbortPolicyWhenAbortJobReturns ==
    [][\A d \in Drivers :
        /\ SamplePolicy(d)
        /\ Samples(d) /\ AbortDue(d) =>
            IF monitorThread'[d].exc = NoException
            THEN monitorThread'[d].stop
            ELSE monitorThread'[d].stop = monitorThread[d].stop]_vars

\* The monitor aborted a stalled job with no maximum time configured, and stopped.
C17_Witness ==
    \E d \in Drivers :
        /\ migrationMaxTime = 0
        /\ monitorThread[d].aborts = 1 /\ monitorThread[d].pc = "done"
        /\ monitorThread[d].info.dataRemaining >= monitorThread[d].lowmark
        /\ monitorThread[d].stop /\ dom[d].abortRequested

\* C18: every started run ends, no exception leaves run(), and at the end the VM is
\* Down (MIGRATION_SUCCEEDED or SAVE_STATE_SUCCEEDED) with status code 0 exactly
\* when the transfer succeeded, and otherwise Up with a non-zero code; it is never
\* left a 'Migration Source'. Stated for the runs whose peer probe found nothing
\* wrong.
C18_RunEndsReflectingOutcome ==
    /\ [](\A d \in Drivers :
            Ended(d) /\ src[d].probe \in {"none", "absent"} =>
                /\ ~src[d].escaped
                /\ vm[d].lastStatus # "Migration Source"
                /\ IF Succeeded(d)
                   THEN /\ vm[d].lastStatus = "Down"
                        /\ vm[d].exitReason \in {"MIGRATION_SUCCEEDED",
                                                  "SAVE_STATE_SUCCEEDED"}
                        /\ status[d].code = 0
                   ELSE /\ vm[d].lastStatus = "Up"
                        /\ status[d].code # 0)
    /\ (src[1].pc # "init" ~> Ended(1))

\* The driver of d has left the transfer phase after starting the workers.
TornDown(d) ==
    /\ downtimeThread[d].pc # "none"
    /\ src[d].pc \in {"finishSuccessfully", "except", "delParams", "release",
                       "recover", "done"}

\* C19: on every return path of the remote transfer phase the driver has cancelled
\* the ramp and stopped the monitor, and no worker makes a hypervisor call once its
\* stop event is set: no setMaxDowntime from the ramp, no jobInfo or abortJob from
\* the monitor.
C19_WorkersQuietAfterTeardown ==
    \A d \in Drivers :
        /\ TornDown(d) =>
            /\ downtimeThread[d].stop
            /\ src[d].monitorThread => monitorThread[d].stop
        /\ downtimeThread[d].lateCalls = 0
        /\ monitorThread[d].lateCalls = 0

\* The file-mode transfer phase of d failed: pausing the statistics collector,
\* preparing the volume path or dom.save() raised.
SaveFailed(d) ==
    /\ src[d].mode = "file"
    /\ vm[d].saveOutcome \in {"statsPauseRaises", "prepareVolumePathRaises",
                               "saveRaises"}

\* What C20 claims apart from the guest: the statistics collector runs again and the
\* volume path is torn down as soon as the failure propagates; the peer is never
\* asked to destroy; _migrationParams is gone before the slot is released; the run
\* ends with cont() called, lastStatus 'Up', the slot released, and status
\* migrateErr unless the abort mapping had set a code before.
SaveFailureCleanup(d) ==
    /\ ~vm[d].statsPaused
    /\ ~vm[d].volumePrepared
    /\ peer[d].destroyCalls = 0
    /\ src[d].pc \in {"except", "delParams", "release", "recover", "done"}
    /\ src[d].pc \in {"release", "recover", "done"} => ~vm[d].migrationParams
    /\ Ended(d) =>
        /\ vm[d].contCalls = 1
        /\ vm[d].lastStatus = "Up"
        /\ src[d].releases = 1 /\ ~src[d].holds
        /\ status[d].code = IF src[d].exc = VIR_ERR_OPERATION_ABORTED
                             THEN MigCancelErr ELSE errCode("migrateErr").code

\* C20: in file mode, when the save call, preparing the volume path or pausing the
\* statistics collector fails after the guest was paused, the collector is resumed
\* before the error propagates, the volume path is torn down if it was prepared,
\* recovery resumes the guest and sets lastStatus 'Up', the status code becomes
\* migrateErr if it was still 0, no peer destroy is attempted, _migrationParams is
\* removed and the slot released.
C20_SaveFailureRecovered ==
    \A d \in Drivers :
        SaveFailed(d) =>
            /\ SaveFailureCleanup(d)
            /\ Ended(d) => vm[d].guestCpuRunning /\ ~src[d].escaped

============================================================================
